---- MODULE Spec2Model ----
(***************************************************************************)
(* Model of paddlets/models/forecasting/ml/adapter/ml_dataset.py:          *)
(* MLDataset.__init__ (argument checks, window resolution, dataset         *)
(* validation), MLDataset._build_samples (the sample loop),                *)
(* MLDataset.__len__ and MLDataset.__getitem__.                            *)
(*                                                                         *)
(* Time is counted in steps of the common frequency of the three series.   *)
(* The target's first timestamp is 0, so target row r has timestamp r.     *)
(* A covariate series is the record [first, last] of its first and last    *)
(* timestamp: its row j has timestamp first + j and it has                 *)
(* last - first + 1 rows.  A sample field is the sequence of the row       *)
(* numbers (0-based, in the array it was sliced from) that it holds.       *)
(***************************************************************************)
EXTENDS Integers, Sequences, FiniteSets, TLC

VARIABLES
    rawdataset,         \* "None" | "NoTarget" | "Dataset"
    target_len,         \* len(rawdataset.get_target().time_index)
    known_cov,          \* rawdataset.get_known_cov(): Unread | None | TimeSeries(first, last)
    observed_cov,       \* rawdataset.get_observed_cov(): likewise
    in_chunk_len,       \* self._target_in_chunk_len
    out_chunk_len,      \* self._target_out_chunk_len
    skip_chunk_len,     \* self._target_skip_chunk_len
    sampling_stride,    \* self._sampling_stride
    time_window,        \* self._time_window: NoWindow (None) | <<lower, upper>>
    window_defaulted,   \* TRUE iff the caller passed time_window = None
    pc,                 \* position of the constructor
    err,                \* the error the constructor raised, "" if none
    future_target_tail, \* the loop variable of _build_samples
    samples,            \* the local list `samples` of _build_samples
    slices,             \* per built sample, the slice arguments the builder used
    self_samples,       \* self._samples: not assigned until __init__ ends
    got,                \* outcome of the last __getitem__ call
    raw_arrays,         \* the data the series of rawdataset hold, per series
    target_ndarray,     \* target_ts.to_numpy(copy=False)
    known_cov_ndarray,  \* known_cov_ts.to_numpy(copy=False)
    observed_cov_ndarray, \* observed_cov_ts.to_numpy(copy=False)
    stacked_known_cov,  \* per built sample, the array np.vstack allocated
    written             \* the write a caller made after the construction

vars == <<rawdataset, target_len, known_cov, observed_cov, in_chunk_len,
          out_chunk_len, skip_chunk_len, sampling_stride, time_window,
          window_defaulted, pc, err, future_target_tail, samples, slices,
          self_samples, got, raw_arrays, target_ndarray, known_cov_ndarray,
          observed_cov_ndarray, stacked_known_cov, written>>

\* The arrays of the dataset and the arrays _build_samples obtains from them.
arrays == <<raw_arrays, target_ndarray, known_cov_ndarray, observed_cov_ndarray>>

(***************************************************************************)
(* Bounds of the inputs.                                                   *)
(***************************************************************************)
MaxTargetLen == 4
MaxInChunkLen == 2
MaxSkipChunkLen == 1
MaxOutChunkLen == 2
MaxStride == 2

\* A covariate of the dataset: absent, or a series from timestamp first to
\* timestamp last.  Unread: the constructor has not yet asked the dataset for it.
None == [kind |-> "None"]
Unread == [kind |-> "Unread"]
TimeSeries(f, l) == [kind |-> "TimeSeries", first |-> f, last |-> l]

\* time_window = None
NoWindow == <<>>

\* A sample field that was not sliced from an array: np.zeros(shape=(0, 0)).
NoSlice == <<>>

\* self._samples before and after the assignment that ends __init__.
NotAssigned == [assigned |-> FALSE, list |-> <<>>]
Assigned(list) == [assigned |-> TRUE, list |-> list]

\* Largest window bound a caller passes: one more than the largest
\* max_allowed_window of any input.
MaxWindowArg == MaxTargetLen + MaxSkipChunkLen + MaxOutChunkLen

WindowArgs ==
    {NoWindow} \cup ((0 .. MaxWindowArg) \X (-1 .. MaxWindowArg))

\* The first timestamp of a covariate: one step before the target's first
\* timestamp, the same, or one step after it.
CovFirsts == {-1, 0, 1}

\* known_cov ends between one step before the last timestamp of a target of
\* n rows and skip + out steps after it, the furthest a sample reaches.
KnownCovChoices(n, skip, out) ==
    {None} \cup
    {TimeSeries(f, l) : <<f, l>> \in
        {c \in CovFirsts \X ((n - 2) .. (n - 1 + skip + out)) : c[1] <= c[2]}}

\* observed_cov ends up to two steps before the last timestamp of a target
\* of n rows, or at it.
ObservedCovChoices(n) ==
    {None} \cup
    {TimeSeries(f, l) : <<f, l>> \in
        {c \in CovFirsts \X ((n - 3) .. (n - 1)) : c[1] <= c[2]}}

Max(a, b) == IF a >= b THEN a ELSE b
Min(a, b) == IF a <= b THEN a ELSE b

(***************************************************************************)
(* Python and pandas primitives the code relies on.                        *)
(***************************************************************************)
\* len(series.time_index)
SeriesLen(series) == series.last - series.first + 1

\* seq[i] on a sequence of n elements succeeds for -n <= i < n ...
PyIndexOk(n, i) == (0 - n <= i) /\ (i < n)

\* ... and a negative i counts from the end.
PyIndex(n, i) == IF i < 0 THEN n + i ELSE i

\* time_index.get_loc(ts) raises KeyError unless ts is in the index ...
HasLoc(series, ts) == (series.first <= ts) /\ (ts <= series.last)

\* ... and otherwise returns the row that holds ts.
GetLoc(series, ts) == ts - series.first

\* A slice bound b of a[..:..] on n rows: negative counts from the end, then
\* clamped into 0 .. n.
SliceBound(n, b) == IF b < 0 THEN Max(n + b, 0) ELSE Min(b, n)

\* ndarray[start:stop] on n rows: the rows it returns, in order.
PySlice(n, start, stop) ==
    LET a == SliceBound(n, start)
        b == SliceBound(n, stop)
    IN  IF a < b THEN [k \in 1 .. (b - a) |-> a + k - 1] ELSE <<>>

(***************************************************************************)
(* MLDataset._compute_min_allowed_window                                   *)
(***************************************************************************)
ComputeMinAllowedWindow ==
    Max(1, in_chunk_len) + skip_chunk_len + out_chunk_len - 1

\* A variant of max_allowed_window that forgets the - 1: it admits an upper
\* bound one past the last tail a sample can have.
MaxAllowedWindowOffByOne == target_len + skip_chunk_len + out_chunk_len

\* max_allowed_window of __init__
MaxAllowedWindow == target_len - 1 + skip_chunk_len + out_chunk_len

\* max_target_idx of __init__
MaxTargetIdx == target_len - 1

\* self._known_cov_chunk_len
KnownCovChunkLen == in_chunk_len + out_chunk_len

\* self._observed_cov_chunk_len
ObservedCovChunkLen == IF in_chunk_len = 0 THEN 1 ELSE in_chunk_len

\* A variant of the argument checks that lets a stride of 0 pass.
CheckArgumentsZeroStride ==
    IF rawdataset = "None" THEN "NoneDataset"
    ELSE IF rawdataset = "NoTarget" THEN "NoneTarget"
    ELSE IF target_len < 1 THEN "EmptyTarget"
    ELSE IF in_chunk_len < 0 THEN "InChunkLen"
    ELSE IF skip_chunk_len < 0 THEN "SkipChunkLen"
    ELSE IF out_chunk_len <= 0 THEN "OutChunkLen"
    ELSE IF sampling_stride < 0 THEN "SamplingStride"
    ELSE ""

(***************************************************************************)
(* __init__, first part: the checks of the dataset and of the arguments.   *)
(* The error raised, "" if none.                                           *)
(***************************************************************************)
CheckArguments ==
    IF rawdataset = "None" THEN "NoneDataset"
    ELSE IF rawdataset = "NoTarget" THEN "NoneTarget"
    ELSE IF target_len < 1 THEN "EmptyTarget"
    ELSE IF in_chunk_len < 0 THEN "InChunkLen"
    ELSE IF skip_chunk_len < 0 THEN "SkipChunkLen"
    ELSE IF out_chunk_len <= 0 THEN "OutChunkLen"
    ELSE IF sampling_stride <= 0 THEN "SamplingStride"
    ELSE ""

\* The default window is computed only after this check.
CheckDefaultWindow(tw) ==
    IF tw = NoWindow /\ target_len < Max(1, in_chunk_len) + skip_chunk_len + out_chunk_len
    THEN "TargetTooShortForDefaultWindow"
    ELSE ""

\* A variant of the defaulting whose upper bound is len(target).
ResolveWindowUpperLen(tw) ==
    IF tw = NoWindow THEN <<ComputeMinAllowedWindow, target_len>> ELSE tw

\* self._time_window after the defaulting.
ResolveWindow(tw) ==
    IF tw = NoWindow THEN <<ComputeMinAllowedWindow, target_len - 1>> ELSE tw

\* A variant of the window checks that rejects max_allowed_window itself.
CheckWindowBoundsUpperExclusive(w) ==
    IF w[1] < ComputeMinAllowedWindow THEN "WindowLowerBound"
    ELSE IF w[2] >= MaxAllowedWindow THEN "WindowUpperBound"
    ELSE ""

\* The checks of the window against min_allowed_window, max_allowed_window.
CheckWindowBounds(w) ==
    IF w[1] < ComputeMinAllowedWindow THEN "WindowLowerBound"
    ELSE IF w[2] > MaxAllowedWindow THEN "WindowUpperBound"
    ELSE ""

\* min_allowed_target_len of __init__
MinAllowedTargetLen(w) ==
    IF w[2] > MaxTargetIdx
    THEN Max(1, in_chunk_len)
    ELSE Max(1, in_chunk_len) + skip_chunk_len + out_chunk_len

CheckTargetLen(w) ==
    IF target_len < MinAllowedTargetLen(w) THEN "TargetTooShort" ELSE ""

\* All the checks that precede the covariates, in source order.
ValidateTargetResult(tw) ==
    IF CheckArguments # "" THEN CheckArguments
    ELSE IF CheckDefaultWindow(tw) # "" THEN CheckDefaultWindow(tw)
    ELSE IF CheckWindowBounds(ResolveWindow(tw)) # ""
         THEN CheckWindowBounds(ResolveWindow(tw))
    ELSE CheckTargetLen(ResolveWindow(tw))

(***************************************************************************)
(* __init__, second part: the validation of known_cov.                     *)
(***************************************************************************)
CheckKnownCov(known, w) ==
    IF known = None THEN ""
    ELSE IF w[2] > MaxTargetIdx
    THEN \* max_target_timestamp = MaxTargetIdx
         IF known.last < MaxTargetIdx THEN "KnownCovTimestampTooEarly"
         ELSE IF ~HasLoc(known, MaxTargetIdx) THEN "KeyError"
         ELSE IF SeriesLen(known) - GetLoc(known, MaxTargetIdx) <= w[2] - MaxTargetIdx
              THEN "KnownCovInsufficient"
         ELSE ""
    ELSE \* upper_window_timestamp = target_timeindex[w[2]]
         IF ~PyIndexOk(target_len, w[2]) THEN "IndexError"
         ELSE IF known.last < PyIndex(target_len, w[2])
              THEN "KnownCovTimestampTooEarly"
         ELSE ""

(***************************************************************************)
(* __init__, third part: the validation of observed_cov.                   *)
(***************************************************************************)
LastSamplePastTargetTail(w) == w[2] - skip_chunk_len - out_chunk_len

CheckObservedCov(observed, w) ==
    IF observed = None THEN ""
    ELSE IF w[2] > MaxTargetIdx
    THEN IF observed.last < MaxTargetIdx THEN "ObservedCovTimestampTooEarly"
         ELSE ""
    ELSE IF ~PyIndexOk(target_len, LastSamplePastTargetTail(w)) THEN "IndexError"
         ELSE IF observed.last < PyIndex(target_len, LastSamplePastTargetTail(w))
              THEN "ObservedCovTimestampTooEarly"
         ELSE ""

(***************************************************************************)
(* _build_samples: the body of the loop for the tail t.                    *)
(* Each ...Slice is the pair <<start, stop>> of the slice [start:stop] the  *)
(* code takes, NoSlice where it takes none.                                *)
(***************************************************************************)
\* A variant of the future_target slice that starts and stops one row early.
FutureTargetSliceOffByOne(t) ==
    IF t > target_len - 1
    THEN NoSlice
    ELSE <<t - out_chunk_len, t>>

\* sample["future_target"]
FutureTargetSlice(t) ==
    IF t > target_len - 1
    THEN NoSlice
    ELSE <<t - out_chunk_len + 1, t + 1>>

\* A variant of past_target_tail that forgets the skip chunk.
PastTargetTailNoSkip(t) == t - out_chunk_len

\* past_target_tail
PastTargetTail(t) == t - out_chunk_len - skip_chunk_len

\* sample["past_target"]
PastTargetSlice(t) ==
    IF in_chunk_len = 0
    THEN NoSlice
    ELSE <<PastTargetTail(t) - in_chunk_len + 1, PastTargetTail(t) + 1>>

\* The error of the lookups that give known_cov_right_tail, "" if none.
KnownCovLookupError(known, t) ==
    IF known = None THEN ""
    ELSE IF t > target_len - 1
    THEN IF HasLoc(known, PyIndex(target_len, -1)) THEN "" ELSE "KeyError"
    ELSE IF ~PyIndexOk(target_len, t) THEN "IndexError"
         ELSE IF HasLoc(known, PyIndex(target_len, t)) THEN "" ELSE "KeyError"

\* known_cov_right_tail
KnownCovRightTail(known, t) ==
    IF t > target_len - 1
    THEN GetLoc(known, PyIndex(target_len, -1)) + skip_chunk_len + out_chunk_len
    ELSE GetLoc(known, PyIndex(target_len, t))

\* known_cov_right
KnownCovRightSlice(known, t) ==
    IF known = None
    THEN NoSlice
    ELSE <<KnownCovRightTail(known, t) - out_chunk_len + 1,
           KnownCovRightTail(known, t) + 1>>

\* known_cov_left_tail
KnownCovLeftTail(known, t) ==
    KnownCovRightTail(known, t) - out_chunk_len - skip_chunk_len

\* known_cov_left
KnownCovLeftSlice(known, t) ==
    IF known = None
    THEN NoSlice
    ELSE <<KnownCovLeftTail(known, t) - in_chunk_len + 1,
           KnownCovLeftTail(known, t) + 1>>

\* The error of the lookups that give observed_cov_tail, "" if none.
ObservedCovLookupError(observed, t) ==
    IF observed = None THEN ""
    ELSE IF ~PyIndexOk(target_len, PastTargetTail(t)) THEN "IndexError"
    ELSE IF HasLoc(observed, PyIndex(target_len, PastTargetTail(t))) THEN ""
    ELSE "KeyError"

\* observed_cov_tail
ObservedCovTail(observed, t) ==
    GetLoc(observed, PyIndex(target_len, PastTargetTail(t)))

\* sample["observed_cov"]
ObservedCovSlice(observed, t) ==
    IF observed = None
    THEN NoSlice
    ELSE <<ObservedCovTail(observed, t) - ObservedCovChunkLen + 1,
           ObservedCovTail(observed, t) + 1>>

\* A variant of the step of the loop that moves the tail by one row whatever
\* the stride.
NextTailByOne(t) == t + 1

\* future_target_tail += self._sampling_stride
NextTail(t) == t + sampling_stride

\* The rows a slice returns, none for NoSlice.
Rows(n, sl) == IF sl = NoSlice THEN <<>> ELSE PySlice(n, sl[1], sl[2])

\* len(array) for a covariate of the dataset.
CovLen(cov) == IF cov = None THEN 0 ELSE SeriesLen(cov)

\* The error one iteration raises, "" if none: known_cov is built first.
BuildError(known, observed, t) ==
    IF KnownCovLookupError(known, t) # ""
    THEN KnownCovLookupError(known, t)
    ELSE ObservedCovLookupError(observed, t)

\* The slices one iteration takes.
SampleSlices(known, observed, t) ==
    [tail |-> t,
     future_target |-> FutureTargetSlice(t),
     past_target |-> PastTargetSlice(t),
     known_cov_left |-> KnownCovLeftSlice(known, t),
     known_cov_right |-> KnownCovRightSlice(known, t),
     observed_cov |-> ObservedCovSlice(observed, t)]

\* The sample one iteration appends; np.vstack((left, right)) is left \o right.
BuildSample(known, observed, t) ==
    [past_target |-> Rows(target_len, PastTargetSlice(t)),
     future_target |-> Rows(target_len, FutureTargetSlice(t)),
     known_cov |-> Rows(CovLen(known), KnownCovLeftSlice(known, t)) \o
                   Rows(CovLen(known), KnownCovRightSlice(known, t)),
     observed_cov |-> Rows(CovLen(observed), ObservedCovSlice(observed, t))]

(***************************************************************************)
(* The arrays.  Row r of an array holds the value r until a caller writes  *)
(* into it, so the row numbers a sample field was sliced from are also the *)
(* values the field held when it was built.  A basic slice a[i:j] of a     *)
(* numpy array is a view of a: it reads and writes the rows of a.          *)
(* np.vstack allocates a new array.                                        *)
(***************************************************************************)
\* The data of a series of n rows.
SeriesData(n) == [k \in 1 .. n |-> k - 1]

\* No array before _build_samples runs.
NoArrays == [target |-> <<>>, known_cov |-> <<>>, observed_cov |-> <<>>]

\* The data of the three series of the dataset.
RawArrays(known, observed) ==
    [target |-> SeriesData(target_len),
     known_cov |-> SeriesData(CovLen(known)),
     observed_cov |-> SeriesData(CovLen(observed))]

\* The values a view of the rows `rows` of `array` reads.
Take(array, rows) == [k \in 1 .. Len(rows) |-> array[rows[k] + 1]]

\* array[row] = v for a value v the array did not hold (row is 0-based).
Poke(array, row) == [array EXCEPT ![row + 1] = 0 - 1 - @]

\* What the four matrices of the i-th sample hold now.
SampleValue(i) ==
    [past_target |-> Take(target_ndarray, samples[i].past_target),
     future_target |-> Take(target_ndarray, samples[i].future_target),
     known_cov |-> stacked_known_cov[i],
     observed_cov |-> Take(observed_cov_ndarray, samples[i].observed_cov)]

NoWrite == [kind |-> "none"]

(***************************************************************************)
(* __getitem__: self._samples[idx] on a Python list.                       *)
(***************************************************************************)
NotCalled == [outcome |-> "NotCalled"]

\* A variant of __getitem__ that rejects every negative index.
GetItemNoNegative(list, idx) ==
    IF 0 <= idx /\ idx < Len(list)
    THEN [outcome |-> "Sample", idx |-> idx, sample |-> list[idx + 1]]
    ELSE [outcome |-> "IndexError", idx |-> idx]

GetItem(list, idx) ==
    IF PyIndexOk(Len(list), idx)
    THEN [outcome |-> "Sample", idx |-> idx,
          sample |-> list[PyIndex(Len(list), idx) + 1]]
    ELSE [outcome |-> "IndexError", idx |-> idx]

(***************************************************************************)
(* The state machine.                                                      *)
(***************************************************************************)
Init ==
    /\ rawdataset \in {"None", "NoTarget", "Dataset"}
    /\ target_len \in IF rawdataset = "Dataset" THEN 0 .. MaxTargetLen ELSE {0}
    /\ in_chunk_len \in -1 .. MaxInChunkLen
    /\ out_chunk_len \in 0 .. MaxOutChunkLen
    /\ skip_chunk_len \in -1 .. MaxSkipChunkLen
    /\ sampling_stride \in 0 .. MaxStride
    /\ time_window \in WindowArgs
    /\ window_defaulted = (time_window = NoWindow)
    /\ known_cov = Unread
    /\ observed_cov = Unread
    /\ pc = "validate_target"
    /\ err = ""
    /\ future_target_tail = 0
    /\ samples = <<>>
    /\ slices = <<>>
    /\ self_samples = NotAssigned
    /\ got = NotCalled
    /\ raw_arrays = NoArrays
    /\ target_ndarray = <<>>
    /\ known_cov_ndarray = <<>>
    /\ observed_cov_ndarray = <<>>
    /\ stacked_known_cov = <<>>
    /\ written = NoWrite

\* __init__ up to the check of the target's length.
ValidateTarget ==
    /\ pc = "validate_target"
    /\ err' = ValidateTargetResult(time_window)
    /\ pc' = IF err' = "" THEN "validate_known_cov" ELSE "failed"
    /\ time_window' = IF CheckArguments = "" /\ CheckDefaultWindow(time_window) = ""
                      THEN ResolveWindow(time_window)
                      ELSE time_window
    /\ UNCHANGED <<rawdataset, target_len, known_cov, observed_cov, in_chunk_len,
                   out_chunk_len, skip_chunk_len, sampling_stride,
                   window_defaulted, future_target_tail, samples, slices,
                   self_samples, got, arrays, stacked_known_cov, written>>

\* __init__: the validation of the known covariate the dataset holds.
ValidateKnownCov ==
    /\ pc = "validate_known_cov"
    /\ \E known \in KnownCovChoices(target_len, skip_chunk_len, out_chunk_len) :
        /\ known_cov' = known
        /\ err' = CheckKnownCov(known, time_window)
    /\ pc' = IF err' = "" THEN "validate_observed_cov" ELSE "failed"
    /\ UNCHANGED <<rawdataset, target_len, observed_cov, in_chunk_len,
                   out_chunk_len, skip_chunk_len, sampling_stride, time_window,
                   window_defaulted, future_target_tail, samples, slices,
                   self_samples, got, arrays, stacked_known_cov, written>>

\* __init__: the validation of the observed covariate the dataset holds, and
\* the entry into _build_samples.
ValidateObservedCov ==
    /\ pc = "validate_observed_cov"
    /\ \E observed \in ObservedCovChoices(target_len) :
        /\ observed_cov' = observed
        /\ err' = CheckObservedCov(observed, time_window)
    /\ pc' = IF err' = "" THEN "build" ELSE "failed"
    /\ future_target_tail' = IF err' = "" THEN time_window[1] ELSE future_target_tail
    /\ IF err' = ""
       THEN /\ raw_arrays' = RawArrays(known_cov, observed_cov')
            /\ target_ndarray' = raw_arrays'.target
            /\ known_cov_ndarray' = raw_arrays'.known_cov
            /\ observed_cov_ndarray' = raw_arrays'.observed_cov
       ELSE UNCHANGED arrays
    /\ UNCHANGED <<rawdataset, target_len, known_cov, in_chunk_len,
                   out_chunk_len, skip_chunk_len, sampling_stride, time_window,
                   window_defaulted, samples, slices, self_samples, got,
                   stacked_known_cov, written>>

\* One iteration of the loop of _build_samples.
BuildStep ==
    /\ pc = "build"
    /\ future_target_tail <= time_window[2]
    /\ err' = BuildError(known_cov, observed_cov, future_target_tail)
    /\ IF err' = ""
       THEN /\ samples' = Append(samples,
                    BuildSample(known_cov, observed_cov, future_target_tail))
            /\ slices' = Append(slices,
                    SampleSlices(known_cov, observed_cov, future_target_tail))
            /\ stacked_known_cov' = Append(stacked_known_cov,
                    Take(known_cov_ndarray,
                         BuildSample(known_cov, observed_cov, future_target_tail).known_cov))
            /\ future_target_tail' = NextTail(future_target_tail)
            /\ pc' = "build"
       ELSE /\ pc' = "build_failed"
            /\ UNCHANGED <<samples, slices, future_target_tail, stacked_known_cov>>
    /\ UNCHANGED <<rawdataset, target_len, known_cov, observed_cov, in_chunk_len,
                   out_chunk_len, skip_chunk_len, sampling_stride, time_window,
                   window_defaulted, self_samples, got, arrays, written>>

\* The loop ends, _build_samples returns and __init__ stores the list.
BuildReturn ==
    /\ pc = "build"
    /\ ~(future_target_tail <= time_window[2])
    /\ self_samples' = Assigned(samples)
    /\ pc' = "done"
    /\ UNCHANGED <<rawdataset, target_len, known_cov, observed_cov, in_chunk_len,
                   out_chunk_len, skip_chunk_len, sampling_stride, time_window,
                   window_defaulted, err, future_target_tail, samples, slices, got,
                   arrays, stacked_known_cov, written>>

\* dataset[idx] on the constructed dataset.
GetItemCall ==
    /\ pc = "done"
    /\ \E idx \in (0 - Len(self_samples.list) - 1) .. (Len(self_samples.list) + 1) :
        got' = GetItem(self_samples.list, idx)
    /\ UNCHANGED <<rawdataset, target_len, known_cov, observed_cov, in_chunk_len,
                   out_chunk_len, skip_chunk_len, sampling_stride, time_window,
                   window_defaulted, pc, err, future_target_tail, samples, slices,
                   self_samples, arrays, stacked_known_cov, written>>

Next ==
    \/ ValidateTarget
    \/ ValidateKnownCov
    \/ ValidateObservedCov
    \/ BuildStep
    \/ BuildReturn
    \/ GetItemCall

Spec == Init /\ [][Next]_vars

(***************************************************************************)
(* A caller that writes once into an array after the construction: into a  *)
(* matrix of the sample __getitem__ returned (the dict the list holds, not *)
(* a copy), or into the data of a series of the dataset.                   *)
(* to_numpy(copy=False) may return the series' own data or a copy of it:   *)
(* `shares` is which of the two it did for the array written.              *)
(***************************************************************************)
Fields == {"past_target", "future_target", "known_cov", "observed_cov"}

\* sample[field][k] = v on the sample dataset[got.idx] returned.
WriteSample ==
    /\ pc = "done"
    /\ written = NoWrite
    /\ got.outcome = "Sample"
    /\ LET i == PyIndex(Len(self_samples.list), got.idx) + 1 IN
       \E field \in Fields, shares \in BOOLEAN :
       \E k \in 1 .. Len(samples[i][field]) :
        LET row == samples[i][field][k] IN
        /\ written' = [kind |-> "sample", idx |-> i, field |-> field]
        /\ known_cov_ndarray' = known_cov_ndarray
        /\ CASE field \in {"past_target", "future_target"} ->
                    /\ target_ndarray' = Poke(target_ndarray, row)
                    /\ raw_arrays' = IF shares
                                     THEN [raw_arrays EXCEPT !.target = Poke(@, row)]
                                     ELSE raw_arrays
                    /\ UNCHANGED <<observed_cov_ndarray, stacked_known_cov>>
             [] field = "observed_cov" ->
                    /\ observed_cov_ndarray' = Poke(observed_cov_ndarray, row)
                    /\ raw_arrays' = IF shares
                                     THEN [raw_arrays EXCEPT !.observed_cov = Poke(@, row)]
                                     ELSE raw_arrays
                    /\ UNCHANGED <<target_ndarray, stacked_known_cov>>
             [] field = "known_cov" ->
                    /\ stacked_known_cov' =
                            [stacked_known_cov EXCEPT ![i] = Poke(@, k - 1)]
                    /\ UNCHANGED <<raw_arrays, target_ndarray, observed_cov_ndarray>>
    /\ UNCHANGED <<rawdataset, target_len, known_cov, observed_cov, in_chunk_len,
                   out_chunk_len, skip_chunk_len, sampling_stride, time_window,
                   window_defaulted, pc, err, future_target_tail, samples, slices,
                   self_samples, got>>

\* series.data[row] = v on a series of the dataset.
WriteRaw ==
    /\ pc = "done"
    /\ written = NoWrite
    /\ \E series \in {"target", "known_cov", "observed_cov"}, shares \in BOOLEAN :
       \E k \in 1 .. Len(raw_arrays[series]) :
        /\ written' = [kind |-> "raw", series |-> series]
        /\ raw_arrays' = [raw_arrays EXCEPT ![series] = Poke(@, k - 1)]
        /\ target_ndarray' = IF shares /\ series = "target"
                             THEN Poke(target_ndarray, k - 1) ELSE target_ndarray
        /\ known_cov_ndarray' = IF shares /\ series = "known_cov"
                                THEN Poke(known_cov_ndarray, k - 1) ELSE known_cov_ndarray
        /\ observed_cov_ndarray' = IF shares /\ series = "observed_cov"
                                   THEN Poke(observed_cov_ndarray, k - 1)
                                   ELSE observed_cov_ndarray
    /\ UNCHANGED <<rawdataset, target_len, known_cov, observed_cov, in_chunk_len,
                   out_chunk_len, skip_chunk_len, sampling_stride, time_window,
                   window_defaulted, pc, err, future_target_tail, samples, slices,
                   self_samples, got, stacked_known_cov>>

NextWrites ==
    \/ Next
    \/ WriteSample
    \/ WriteRaw

(***************************************************************************)
(* The worked examples of the docstrings, as inputs of the constructor:    *)
(* the two examples of _build_samples (a target of 8 rows, lag and non-lag *)
(* chunk lengths, with the window each example states) and the time_window  *)
(* examples 5.1 - 5.3 of the class (a target of 11 rows).                   *)
(***************************************************************************)
DocstringInputs ==
    {[target_len |-> 8, in_chunk_len |-> 0, skip_chunk_len |-> 1,
      out_chunk_len |-> 2, sampling_stride |-> 1, time_window |-> <<2, 5>>],
     [target_len |-> 8, in_chunk_len |-> 2, skip_chunk_len |-> 1,
      out_chunk_len |-> 2, sampling_stride |-> 1, time_window |-> <<4, 7>>],
     [target_len |-> 11, in_chunk_len |-> 4, skip_chunk_len |-> 3,
      out_chunk_len |-> 2, sampling_stride |-> 1, time_window |-> NoWindow],
     [target_len |-> 11, in_chunk_len |-> 4, skip_chunk_len |-> 3,
      out_chunk_len |-> 2, sampling_stride |-> 1, time_window |-> <<8, 10>>],
     [target_len |-> 11, in_chunk_len |-> 4, skip_chunk_len |-> 3,
      out_chunk_len |-> 2, sampling_stride |-> 1, time_window |-> <<15, 15>>],
     [target_len |-> 11, in_chunk_len |-> 4, skip_chunk_len |-> 3,
      out_chunk_len |-> 2, sampling_stride |-> 1, time_window |-> <<16, 16>>]}

DocstringInit ==
    /\ rawdataset = "Dataset"
    /\ \E d \in DocstringInputs :
        /\ target_len = d.target_len
        /\ in_chunk_len = d.in_chunk_len
        /\ out_chunk_len = d.out_chunk_len
        /\ skip_chunk_len = d.skip_chunk_len
        /\ sampling_stride = d.sampling_stride
        /\ time_window = d.time_window
    /\ window_defaulted = (time_window = NoWindow)
    /\ known_cov = Unread
    /\ observed_cov = Unread
    /\ pc = "validate_target"
    /\ err = ""
    /\ future_target_tail = 0
    /\ samples = <<>>
    /\ slices = <<>>
    /\ self_samples = NotAssigned
    /\ got = NotCalled
    /\ raw_arrays = NoArrays
    /\ target_ndarray = <<>>
    /\ known_cov_ndarray = <<>>
    /\ observed_cov_ndarray = <<>>
    /\ stacked_known_cov = <<>>
    /\ written = NoWrite

SpecDocstring == DocstringInit /\ [][Next]_vars

\* The examples, followed by a caller's write.
SpecWrites == DocstringInit /\ [][NextWrites]_vars

\* Row r of the target of the examples of _build_samples: [r, 10 r].
DocstringTargetRow(r) == <<r, 10 * r>>

(***************************************************************************)
(* The claims.                                                             *)
(***************************************************************************)
Constructed == pc = "done"
Lower == time_window[1]
Upper == time_window[2]
KnownPresent == known_cov # None /\ known_cov # Unread
ObservedPresent == observed_cov # None /\ observed_cov # Unread

\* The tail for which the i-th sample (1-based) was built.
TailOf(i) == slices[i].tail

\* The rows first .. first + n - 1 of an array, in order.
RowRange(first, n) == [k \in 1 .. n |-> first + k - 1]

\* The slice start:stop lies inside an array of n rows: its first row start
\* is >= 0, its last row stop - 1 is <= n - 1, and it is not reversed.
SliceInBounds(n, start, stop) == (0 <= start) /\ (start <= stop) /\ (stop <= n)

\* A slice the builder took lies inside an array of n rows.
TakenInBounds(n, sl) == sl = NoSlice \/ SliceInBounds(n, sl[1], sl[2])

\* C1: after every construction that succeeds, length() equals
\* floor((upper - lower) / sampling_stride) + 1.
C1_LengthFormula ==
    Constructed =>
        Len(self_samples.list) = ((Upper - Lower) \div sampling_stride) + 1

\* C2: every slice the builder takes, for every sample tail, has its first
\* and last row inside the array it slices, and every timestamp lookup of the
\* build loop succeeds.
C2_SlicesInBounds ==
    /\ pc # "build_failed"
    /\ \A i \in 1 .. Len(slices) :
        /\ TakenInBounds(target_len, slices[i].future_target)
        /\ TakenInBounds(target_len, slices[i].past_target)
        /\ TakenInBounds(CovLen(known_cov), slices[i].known_cov_left)
        /\ TakenInBounds(CovLen(known_cov), slices[i].known_cov_right)
        /\ TakenInBounds(CovLen(observed_cov), slices[i].observed_cov)

\* C3: when construction succeeds, every sample's known_cov has
\* in_chunk_len + out_chunk_len rows if known_cov is present, 0 rows if not.
C3_KnownCovRows ==
    Constructed =>
        \A i \in 1 .. Len(self_samples.list) :
            Len(self_samples.list[i].known_cov) =
                IF KnownPresent THEN in_chunk_len + out_chunk_len ELSE 0

\* C4: when construction succeeds, every sample's observed_cov has
\* max(1, in_chunk_len) rows ending with the observed_cov row whose timestamp
\* is the target timestamp at t - out_chunk_len - skip_chunk_len if
\* observed_cov is present, 0 rows if not.
C4_ObservedCovRows ==
    Constructed =>
        \A i \in 1 .. Len(self_samples.list) :
            LET oc == self_samples.list[i].observed_cov
                ts == TailOf(i) - out_chunk_len - skip_chunk_len
            IN  IF ObservedPresent
                THEN /\ Len(oc) = Max(1, in_chunk_len)
                     /\ oc[Len(oc)] + observed_cov.first = ts
                ELSE Len(oc) = 0

\* C5: a produced sample with tail t <= len(target) - 1 has as future_target
\* exactly the target rows t - out_chunk_len + 1 .. t; one with a larger tail
\* has an empty future_target.
C5_FutureTarget ==
    \A i \in 1 .. Len(samples) :
        samples[i].future_target =
            IF TailOf(i) <= target_len - 1
            THEN RowRange(TailOf(i) - out_chunk_len + 1, out_chunk_len)
            ELSE <<>>

\* C5 witness: a constructed dataset that holds a sample with a future_target
\* of two rows and a sample whose tail lies beyond the target.
C5_Witness ==
    /\ Constructed
    /\ out_chunk_len = 2
    /\ \E i, j \in 1 .. Len(self_samples.list) :
        /\ TailOf(i) <= target_len - 1
        /\ Len(self_samples.list[i].future_target) = 2
        /\ TailOf(j) > target_len - 1

\* C6: past_target of a produced sample is empty iff in_chunk_len = 0, and
\* otherwise it is the in_chunk_len target rows that end at row
\* t - out_chunk_len - skip_chunk_len, whatever the tail t.
C6_PastTarget ==
    \A i \in 1 .. Len(samples) :
        /\ (Len(samples[i].past_target) = 0) <=> (in_chunk_len = 0)
        /\ in_chunk_len # 0 =>
            samples[i].past_target =
                RowRange(TailOf(i) - out_chunk_len - skip_chunk_len
                            - in_chunk_len + 1, in_chunk_len)

\* C6 witness: a constructed dataset with in_chunk_len = 2 and a skip chunk
\* that holds a training sample and an inference sample.
C6_Witness ==
    /\ Constructed
    /\ in_chunk_len = 2
    /\ skip_chunk_len = 1
    /\ \E i, j \in 1 .. Len(self_samples.list) :
        /\ TailOf(i) <= target_len - 1
        /\ TailOf(j) > target_len - 1
        /\ Len(self_samples.list[j].past_target) = 2

\* C7: after a successful construction the window satisfies
\* lower >= max(1, in_chunk_len) + skip_chunk_len + out_chunk_len - 1 and
\* upper <= len(target) - 1 + skip_chunk_len + out_chunk_len.
C7_WindowWithinAllowed ==
    Constructed =>
        /\ Lower >= (IF in_chunk_len > 1 THEN in_chunk_len ELSE 1)
                        + skip_chunk_len + out_chunk_len - 1
        /\ Upper <= target_len - 1 + skip_chunk_len + out_chunk_len

\* C7 witness: a construction that succeeded with a window the caller passed
\* whose bounds are the smallest lower and the largest upper allowed.
C7_Witness ==
    /\ Constructed
    /\ ~window_defaulted
    /\ Lower = Max(1, in_chunk_len) + skip_chunk_len + out_chunk_len - 1
    /\ Upper = target_len - 1 + skip_chunk_len + out_chunk_len
    /\ Lower < Upper

\* C8: the window of a constructed dataset satisfies lower <= upper, whether
\* it was defaulted or passed by the caller.
C8_LowerAtMostUpper ==
    Constructed => Lower <= Upper

\* C9 as stated: __getitem__ returns the sample at position idx for
\* 0 <= idx <= length() - 1 and fails for every other idx, negative ones
\* included.
C9_BoundsChecked ==
    got # NotCalled =>
        IF 0 <= got.idx /\ got.idx <= Len(self_samples.list) - 1
        THEN got = [outcome |-> "Sample", idx |-> got.idx,
                    sample |-> self_samples.list[got.idx + 1]]
        ELSE got.outcome = "IndexError"

\* C9 amended: __getitem__ returns the sample at position idx for
\* 0 <= idx <= length() - 1, the sample at position length() + idx for
\* -length() <= idx <= -1, and fails with an out-of-range error for every
\* other idx.
C9_PythonIndexing ==
    got # NotCalled =>
        LET n == Len(self_samples.list)
        IN  IF 0 <= got.idx /\ got.idx <= n - 1
            THEN got = [outcome |-> "Sample", idx |-> got.idx,
                        sample |-> self_samples.list[got.idx + 1]]
            ELSE IF 0 - n <= got.idx /\ got.idx <= -1
            THEN got = [outcome |-> "Sample", idx |-> got.idx,
                        sample |-> self_samples.list[n + got.idx + 1]]
            ELSE got.outcome = "IndexError"

\* C9 witness: on a dataset of two different samples, a call with a negative
\* index returned a sample.
C9_Witness ==
    /\ Constructed
    /\ Len(self_samples.list) = 2
    /\ self_samples.list[1] # self_samples.list[2]
    /\ got.outcome = "Sample"
    /\ got.idx = -2

\* C10: a construction that fails fails in the validation that precedes the
\* build loop: no error arises while the loop runs over the sample tails, and
\* no sample list is stored by a failed construction.
C10_FailsBeforeBuild ==
    /\ pc # "build_failed"
    /\ err # "" => (samples = <<>> /\ ~self_samples.assigned)

\* The values a target slice of the examples of _build_samples holds.
DocstringTargetValues(rows) == [k \in 1 .. Len(rows) |-> DocstringTargetRow(rows[k])]

\* The inputs of the lag example of _build_samples.
LagScenario ==
    /\ target_len = 8
    /\ in_chunk_len = 0
    /\ skip_chunk_len = 1
    /\ out_chunk_len = 2
    /\ sampling_stride = 1
    /\ ~window_defaulted
    /\ time_window = <<2, 5>>

\* C11: on the lag example (target of 8 rows [[0,0]..[7,70]], in_chunk_len 0,
\* skip_chunk_len 1, out_chunk_len 2, sampling_stride 1, time_window (2, 5))
\* construction succeeds with 5 samples, the first with future_target
\* [[2,20],[3,30]], each next one a row later, all with an empty past_target.
C11_LagScenario ==
    LagScenario =>
        /\ pc \notin {"failed", "build_failed"}
        /\ Constructed =>
            /\ Len(self_samples.list) = 5
            /\ \A i \in 1 .. Len(self_samples.list) :
                /\ DocstringTargetValues(self_samples.list[i].future_target) =
                        <<DocstringTargetRow(i + 1), DocstringTargetRow(i + 2)>>
                /\ self_samples.list[i].past_target = <<>>

\* C12: when the caller passes a time_window whose upper bound is larger than
\* len(target) - 1, every built sample holds only X: its future_target is
\* empty.
C12_UpperBeyondTargetOnlyX ==
    (~window_defaulted /\ Upper > target_len - 1) =>
        \A i \in 1 .. Len(samples) : samples[i].future_target = <<>>

\* C13: samples are produced in increasing tail order without gaps or repeats:
\* the sample at position i (0-based) is built for the tail
\* lower + i * sampling_stride, which is <= upper, so consecutive samples'
\* future_target tails differ by exactly sampling_stride.
C13_TailOrder ==
    \A i \in 1 .. Len(samples) :
        /\ TailOf(i) = Lower + (i - 1) * sampling_stride
        /\ TailOf(i) <= Upper
        /\ samples[i].future_target # <<>> =>
            samples[i].future_target[out_chunk_len] =
                Lower + (i - 1) * sampling_stride
        /\ i > 1 =>
            /\ TailOf(i) - TailOf(i - 1) = sampling_stride
            /\ (samples[i].future_target # <<>> =>
                    samples[i].future_target[out_chunk_len] -
                    samples[i - 1].future_target[out_chunk_len] = sampling_stride)

\* C13 witness: a constructed dataset with sampling_stride 2 that holds two
\* samples with a future_target.
C13_Witness ==
    /\ Constructed
    /\ sampling_stride = 2
    /\ Len(self_samples.list) >= 2
    /\ self_samples.list[2].future_target # <<>>
    /\ Len(slices) = Len(self_samples.list)

\* The dataset and its target pass the first three checks of __init__.
DatasetOk == rawdataset = "Dataset" /\ target_len >= 1

\* The error of the first invalid chunk length or stride, in source order.
ChunkError ==
    IF in_chunk_len < 0 THEN "InChunkLen"
    ELSE IF skip_chunk_len < 0 THEN "SkipChunkLen"
    ELSE IF out_chunk_len <= 0 THEN "OutChunkLen"
    ELSE IF sampling_stride <= 0 THEN "SamplingStride"
    ELSE ""

\* C15: a None dataset, a None target or an empty target fails first; then a
\* negative in_chunk_len or skip_chunk_len, a non-positive out_chunk_len or a
\* non-positive sampling_stride (0 included) fails with its own error,
\* whatever the window is and before a covariate is read or a default window
\* is computed.
C15_ArgumentsRejectedFirst ==
    (pc # "validate_target" /\ (~DatasetOk \/ ChunkError # "")) =>
        /\ pc = "failed"
        /\ rawdataset = "None" => err = "NoneDataset"
        /\ rawdataset = "NoTarget" => err = "NoneTarget"
        /\ (rawdataset = "Dataset" /\ target_len < 1) => err = "EmptyTarget"
        /\ DatasetOk => err = ChunkError
        /\ known_cov = Unread /\ observed_cov = Unread
        /\ window_defaulted => time_window = NoWindow
        /\ samples = <<>> /\ ~self_samples.assigned

\* C15 witness: a stride of 0 with valid chunk lengths and a window below
\* min_allowed_window is rejected for the stride.
C15_Witness ==
    /\ pc = "failed"
    /\ DatasetOk
    /\ in_chunk_len >= 0 /\ skip_chunk_len >= 0 /\ out_chunk_len > 0
    /\ sampling_stride = 0
    /\ ~window_defaulted /\ time_window = <<0, -1>>
    /\ err = "SamplingStride"

\* C16: an omitted time_window resolves to
\* (max(1, in_chunk_len) + skip_chunk_len + out_chunk_len - 1, len(target) - 1);
\* the construction passes the target checks only if
\* len(target) >= max(1, in_chunk_len) + skip_chunk_len + out_chunk_len, and a
\* constructed dataset then holds at least one sample, each with a
\* future_target of the out_chunk_len rows that end at its tail.
C16_DefaultWindow ==
    window_defaulted =>
        /\ pc \notin {"validate_target", "failed"} =>
            /\ time_window = <<Max(1, in_chunk_len) + skip_chunk_len + out_chunk_len - 1,
                               target_len - 1>>
            /\ target_len >= Max(1, in_chunk_len) + skip_chunk_len + out_chunk_len
        /\ (pc = "failed" /\ time_window = NoWindow /\ DatasetOk /\ ChunkError = "") =>
            /\ target_len < Max(1, in_chunk_len) + skip_chunk_len + out_chunk_len
            /\ err = "TargetTooShortForDefaultWindow"
        /\ Constructed =>
            /\ Len(self_samples.list) >= 1
            /\ \A i \in 1 .. Len(self_samples.list) :
                self_samples.list[i].future_target =
                    RowRange(TailOf(i) - out_chunk_len + 1, out_chunk_len)

\* C16 witness: a dataset constructed without a time_window that holds two
\* samples.
C16_Witness ==
    /\ Constructed
    /\ window_defaulted
    /\ Len(self_samples.list) >= 2
    /\ in_chunk_len = 2
    /\ out_chunk_len = 1

\* The arguments pass the checks, in_chunk_len > 0, the dataset holds no
\* covariate that has been read, and the caller's window is (w, w).
SinglePointConfig(w) ==
    /\ pc # "validate_target"
    /\ DatasetOk /\ ChunkError = ""
    /\ in_chunk_len > 0
    /\ known_cov \in {Unread, None} /\ observed_cov \in {Unread, None}
    /\ ~window_defaulted
    /\ time_window = <<w, w>>

\* The only sample is the last in_chunk_len rows of the target, without a
\* future_target.
SinglePredictSample ==
    /\ pc \notin {"failed", "build_failed"}
    /\ Constructed =>
        /\ Len(self_samples.list) = 1
        /\ self_samples.list[1].past_target =
                RowRange(target_len - in_chunk_len, in_chunk_len)
        /\ self_samples.list[1].future_target = <<>>

\* C17 as stated: with valid arguments, in_chunk_len > 0 and no covariates the
\* window (max_allowed_window, max_allowed_window) is accepted and yields one
\* sample, the last in_chunk_len rows of the target without a future_target.
C17_SinglePredictSampleAnyTarget ==
    SinglePointConfig(target_len - 1 + skip_chunk_len + out_chunk_len) =>
        SinglePredictSample

\* C17: with valid arguments, in_chunk_len > 0, no covariates and a target of
\* at least in_chunk_len rows, the window (max_allowed_window,
\* max_allowed_window) is accepted and yields one sample, the last in_chunk_len
\* rows of the target without a future_target; the window
\* (max_allowed_window + 1, max_allowed_window + 1) is rejected whatever the
\* target's length.
C17_SinglePredictSample ==
    /\ (SinglePointConfig(target_len - 1 + skip_chunk_len + out_chunk_len)
            /\ target_len >= in_chunk_len) =>
        SinglePredictSample
    /\ SinglePointConfig(target_len + skip_chunk_len + out_chunk_len) =>
        /\ pc = "failed"
        /\ err \in {"WindowLowerBound", "WindowUpperBound"}
        /\ target_len >= in_chunk_len => err = "WindowUpperBound"

\* C17 witness: the single sample of the window (max_allowed_window,
\* max_allowed_window) for in_chunk_len = 2.
C17_Witness ==
    /\ Constructed
    /\ SinglePointConfig(target_len - 1 + skip_chunk_len + out_chunk_len)
    /\ in_chunk_len = 2
    /\ skip_chunk_len = 1
    /\ Len(self_samples.list) = 1
    /\ self_samples.list[1].past_target = <<target_len - 2, target_len - 1>>

\* C19: in the training regime with an observed covariate, the target row the
\* validation compares with the covariate's last timestamp,
\* upper - skip_chunk_len - out_chunk_len, is the past_target tail of the last
\* sample the loop builds.
C19_ValidatedRowIsLastSampleTail ==
    (Constructed /\ ObservedPresent /\ Upper <= target_len - 1
        /\ Len(slices) >= 1) =>
        TailOf(Len(slices)) - skip_chunk_len - out_chunk_len =
            LastSamplePastTargetTail(time_window)

\* C20: the loop runs with a stride >= 1 from lower, its tail grows by the
\* stride with each sample and never passes upper by more than one stride,
\* and it ends by returning the list of samples, never by an error.
C20_BuildReturns ==
    /\ pc = "build" =>
        /\ sampling_stride >= 1
        /\ future_target_tail = Lower + Len(samples) * sampling_stride
        /\ future_target_tail <= Max(Lower, Upper + sampling_stride)
    /\ pc \in {"build", "build_failed", "done"} =>
        (pc = "done" \/ ENABLED (BuildStep \/ BuildReturn))

\* C14: no sample shares state with another sample or with the dataset: after
\* a write into a matrix of one sample every other sample holds what it held
\* when built and the data of the dataset's series are unchanged, and after a
\* write into the data of a series every sample holds what it held when built.
C14_NoSharedState ==
    /\ written.kind = "sample" =>
        /\ \A j \in (1 .. Len(samples)) \ {written.idx} : SampleValue(j) = samples[j]
        /\ raw_arrays = RawArrays(known_cov, observed_cov)
    /\ written.kind = "raw" =>
        \A j \in 1 .. Len(samples) : SampleValue(j) = samples[j]

\* The timestamps of the rows `rows` of the known covariate.
KnownCovTimestamps(rows) == [k \in 1 .. Len(rows) |-> known_cov.first + rows[k]]

\* C21: in every built sample with known_cov present, the left part of
\* known_cov holds the in_chunk_len timestamps that end at
\* t - out_chunk_len - skip_chunk_len (those of the sample's past_target rows)
\* and the right part holds the out_chunk_len timestamps that end at the
\* tail t, for training tails and for inference tails alike.
C21_KnownCovAligned ==
    KnownPresent =>
        \A i \in 1 .. Len(samples) :
            /\ KnownCovTimestamps(Rows(CovLen(known_cov), slices[i].known_cov_left)) =
                    RowRange(TailOf(i) - out_chunk_len - skip_chunk_len - in_chunk_len + 1,
                             in_chunk_len)
            /\ KnownCovTimestamps(Rows(CovLen(known_cov), slices[i].known_cov_right)) =
                    RowRange(TailOf(i) - out_chunk_len + 1, out_chunk_len)

====
